---------------------------- MODULE Spec2Model ----------------------------
(***************************************************************************)
(* solfhe-analyzer: a poll loop reads the five most recently visited URLs  *)
(* from the browser history, extracts keywords from every URL that is not  *)
(* in the current batch, counts the qualifying keywords, and once the      *)
(* batch holds five URLs prints a digest of the most common keyword and    *)
(* clears the batch and the counters (src/solfhe-analyzer/src/main.rs).    *)
(*                                                                         *)
(* Strings are sequences of one-character strings, so that splitting,      *)
(* lower-casing and byte lengths are computed and not assumed.             *)
(***************************************************************************)
EXTENDS Integers, Sequences, FiniteSets, TLC

-----------------------------------------------------------------------------
(* Program constants                                                       *)

\* main.rs:130  `if links.len() >= 5`
BatchLimit == 5

\* main.rs:48   `... ORDER BY last_visit_time DESC LIMIT 5`
FetchLimit == 5

\* main.rs:89   `word.len() > 3`
MinWordLen == 3

BLOCKCHAIN_NETWORKS ==
    << <<"b","i","t","c","o","i","n">>,
       <<"e","t","h","e","r","e","u","m">>,
       <<"s","c","r","o","l","l">>,
       <<"p","o","l","k","a","d","o","t">>,
       <<"s","o","l","a","n","a">>,
       <<"a","v","a","l","a","n","c","h","e">>,
       <<"c","o","s","m","o","s">>,
       <<"a","l","g","o","r","a","n","d">>,
       <<"m","i","n","a">>,
       <<"c","h","a","i","n","l","i","n","k">>,
       <<"u","n","i","s","w","a","p">>,
       <<"a","a","v","e">>,
       <<"c","o","m","p","o","u","n","d">>,
       <<"m","a","k","e","r">>,
       <<"p","o","l","y","g","o","n">>,
       <<"b","i","n","a","n","c","e">>,
       <<"t","r","o","n">>,
       <<"w","o","r","m","h","o","l","e">>,
       <<"s","t","e","l","l","a","r">>,
       <<"f","i","l","e","c","o","i","n">> >>

IGNORED_WORDS ==
    << <<"h","t","t","p">>,
       <<"h","t","t","p","s">>,
       <<"w","w","w">>,
       <<"c","o","m">>,
       <<"o","r","g">>,
       <<"n","e","t">> >>

-----------------------------------------------------------------------------
(* Bounds of the model                                                     *)

\* The history store hands back at most Min(FetchLimit, MaxFetch) rows.
MaxFetch == 2

\* Number of distinct RandomState keys a HashMap may be created with.
HashSeeds == 2

-----------------------------------------------------------------------------
(* URLs the browser history may hold                                       *)

UrlUniswap == "https://app.uniswap.org/swap"

UrlEthereum == "https://ethereum.org/en/"

UrlScroll == "https://scroll.io/bridge"

UrlPolkadot == "https://docs.polkadot.network/"

UrlExample == "https://example.com/test"

UrlNoScheme == "www.scroll.io"

UrlShort == "https://t.co/a"

UrlStop == "http://www.com/"

UrlApp == "https://app.io/en"

UrlUpper == "HTTPS://WWW.NET/Https/"

UrlRepeat == "https://Scroll.io/Scroll/scroll"

UrlMina == "https://mina.org/Swap//swap"

\* String::chars of the URL strings above
as_chars ==
    (UrlUniswap :>
        <<"h","t","t","p","s",":","/","/","a","p","p",".","u","n","i","s","w","a","p",".","o","r","g","/","s","w","a","p">>)
    @@ (UrlEthereum :>
        <<"h","t","t","p","s",":","/","/","e","t","h","e","r","e","u","m",".","o","r","g","/","e","n","/">>)
    @@ (UrlScroll :>
        <<"h","t","t","p","s",":","/","/","s","c","r","o","l","l",".","i","o","/","b","r","i","d","g","e">>)
    @@ (UrlPolkadot :>
        <<"h","t","t","p","s",":","/","/","d","o","c","s",".","p","o","l","k","a","d","o","t",".","n","e","t","w","o","r","k","/">>)
    @@ (UrlExample :>
        <<"h","t","t","p","s",":","/","/","e","x","a","m","p","l","e",".","c","o","m","/","t","e","s","t">>)
    @@ (UrlNoScheme :>
        <<"w","w","w",".","s","c","r","o","l","l",".","i","o">>)
    @@ (UrlShort :>
        <<"h","t","t","p","s",":","/","/","t",".","c","o","/","a">>)
    @@ (UrlStop :>
        <<"h","t","t","p",":","/","/","w","w","w",".","c","o","m","/">>)
    @@ (UrlApp :>
        <<"h","t","t","p","s",":","/","/","a","p","p",".","i","o","/","e","n">>)
    @@ (UrlUpper :>
        <<"H","T","T","P","S",":","/","/","W","W","W",".","N","E","T","/","H","t","t","p","s","/">>)
    @@ (UrlRepeat :>
        <<"h","t","t","p","s",":","/","/","S","c","r","o","l","l",".","i","o","/","S","c","r","o","l","l","/","s","c","r","o","l","l">>)
    @@ (UrlMina :>
        <<"h","t","t","p","s",":","/","/","m","i","n","a",".","o","r","g","/","S","w","a","p","/","/","s","w","a","p">>)

\* The history stores the model is run against: each is the content of one
\* browser history database (the `urls` table holds one row per URL).
StoreExample == {UrlUniswap, UrlEthereum, UrlScroll, UrlPolkadot, UrlExample}

StoreNoise == {UrlNoScheme, UrlShort, UrlStop, UrlApp, UrlUpper}

StoreMixed == {UrlRepeat, UrlMina, UrlScroll, UrlUniswap, UrlNoScheme}

Stores == {StoreExample, StoreNoise, StoreMixed}

URLS == UNION Stores

-----------------------------------------------------------------------------
(* Strings                                                                 *)

UpperAlpha ==
    <<"A","B","C","D","E","F","G","H","I","J","K","L","M",
      "N","O","P","Q","R","S","T","U","V","W","X","Y","Z">>

LowerAlpha ==
    <<"a","b","c","d","e","f","g","h","i","j","k","l","m",
      "n","o","p","q","r","s","t","u","v","w","x","y","z">>

Range(s) == {s[i] : i \in 1..Len(s)}

Min(a, b) == IF a <= b THEN a ELSE b

\* char::to_lowercase on the ASCII strings the URL parser hands out
lower_of == [c \in Range(UpperAlpha) |-> LowerAlpha[CHOOSE i \in 1..26 : UpperAlpha[i] = c]]

LowerChar(c) == IF c \in DOMAIN lower_of THEN lower_of[c] ELSE c

\* str::to_lowercase (main.rs:71, main.rs:74)
to_lowercase(s) == [i \in 1..Len(s) |-> LowerChar(s[i])]

\* index of the first character of s that is in cs, Len(s)+1 when none is
FindFirst(s, cs) ==
    IF \E i \in 1..Len(s) : s[i] \in cs
    THEN CHOOSE i \in 1..Len(s) : s[i] \in cs /\ \A j \in 1..(i-1) : s[j] \notin cs
    ELSE Len(s) + 1

\* str::split(sep) (main.rs:68, main.rs:69): the segments between the
\* separators, empty ones included; the empty string has one empty segment
RECURSIVE split(_, _)
split(s, sep) ==
    LET i == FindFirst(s, {sep})
    IN  IF i > Len(s)
        THEN <<s>>
        ELSE <<SubSeq(s, 1, i - 1)>> \o split(SubSeq(s, i + 1, Len(s)), sep)

\* <[T]>::contains / Vec::contains (main.rs:89, main.rs:125)
contains(seq, x) == \E i \in 1..Len(seq) : seq[i] = x

-----------------------------------------------------------------------------
(* Url::parse, Url::domain, Url::path (main.rs:64-66) for the URL shapes   *)
(* of URLS: `scheme://host/path`.  A string without a scheme is a relative *)
(* URL and does not parse; an http(s) URL needs a host; the host comes     *)
(* back lower-cased, the path as written, "/" when it is absent.           *)

SchemeChars == Range(UpperAlpha) \cup Range(LowerAlpha)

Http == <<"h","t","t","p">>

Https == <<"h","t","t","p","s">>

ParseError == [ok |-> FALSE, domain |-> <<>>, path |-> <<>>]

Url_parse(url) ==
    LET colon  == FindFirst(url, {":"})
        scheme == to_lowercase(SubSeq(url, 1, colon - 1))
        rest   == SubSeq(url, colon + 1, Len(url))
        slashes == IF Len(rest) >= 2 /\ rest[1] = "/" /\ rest[2] = "/" THEN 2
                   ELSE IF Len(rest) >= 1 /\ rest[1] = "/" THEN 1 ELSE 0
        after  == SubSeq(rest, slashes + 1, Len(rest))
        hostEnd == FindFirst(after, {"/", "?", "#"})
        host   == SubSeq(after, 1, hostEnd - 1)
        tail   == SubSeq(after, hostEnd, Len(after))
        pathEnd == FindFirst(tail, {"?", "#"})
        path   == SubSeq(tail, 1, pathEnd - 1)
    IN  IF colon > Len(url) \/ colon = 1
           \/ \E i \in 1..(colon - 1) : url[i] \notin SchemeChars
        THEN ParseError
        ELSE IF scheme \in {Http, Https}
        THEN IF host = <<>>
             THEN ParseError
             ELSE [ok |-> TRUE, domain |-> to_lowercase(host),
                   path |-> IF path = <<>> THEN <<"/">> ELSE path]
        ELSE [ok |-> TRUE, domain |-> <<>>,
              path |-> SubSeq(rest, 1, FindFirst(rest, {"?", "#"}) - 1)]

-----------------------------------------------------------------------------
(* Keyword extraction and counting                                         *)

\* ignored with the stoplist looked up before the segment is lower-cased
ignored_case_sensitive(segment) ==
    segment = <<>> \/ contains(IGNORED_WORDS, segment)

\* main.rs:71  the filter of the filter_map closure
ignored(segment) ==
    segment = <<>> \/ contains(IGNORED_WORDS, to_lowercase(segment))

\* extract_keywords_from_url collecting the keywords into a set: a keyword is
\* kept at its first occurrence only
extract_keywords_deduplicated(url) ==
    LET parsed_url == Url_parse(as_chars[url])
        segments   == split(parsed_url.domain, ".") \o split(parsed_url.path, "/")
        kept       == SelectSeq(segments, LAMBDA segment : ~ignored(segment))
        lowered    == [i \in 1..Len(kept) |-> to_lowercase(kept[i])]
        firsts     == {i \in 1..Len(lowered) : \A j \in 1..(i - 1) : lowered[j] # lowered[i]}
    IN  IF parsed_url.ok
        THEN [n \in 1..Cardinality(firsts) |->
                lowered[CHOOSE i \in firsts : Cardinality({j \in firsts : j < i}) = n - 1]]
        ELSE <<>>

\* main.rs:61-83
extract_keywords_from_url(url) ==
    LET parsed_url == Url_parse(as_chars[url])
        segments   == split(parsed_url.domain, ".") \o split(parsed_url.path, "/")
        kept       == SelectSeq(segments, LAMBDA segment : ~ignored(segment))
    IN  IF parsed_url.ok
        THEN [i \in 1..Len(kept) |-> to_lowercase(kept[i])]
        ELSE <<>>

\* HashMap::new() (main.rs:119), as a function with an empty domain
EmptyMap == [w \in {} |-> 0]

\* the inclusion test with a name of three characters on its list
qualifies_short_name(word) ==
    contains(BLOCKCHAIN_NETWORKS \o << <<"a","p","p">> >>, word) \/ Len(word) > MinWordLen

\* the inclusion test without its length rule
qualifies_allow_list_only(word) == contains(BLOCKCHAIN_NETWORKS, word)

\* main.rs:89  the inclusion test of analyze_link
qualifies(word) ==
    contains(BLOCKCHAIN_NETWORKS, word) \/ Len(word) > MinWordLen

\* count_word without the inclusion test
count_word_unfiltered(word_counter, word) ==
    IF word \in DOMAIN word_counter
    THEN [word_counter EXCEPT ![word] = @ + 1]
    ELSE word_counter @@ (word :> 0 + 1)

\* main.rs:89-91  one iteration of the loop of analyze_link
count_word(word_counter, word) ==
    IF qualifies(word)
    THEN IF word \in DOMAIN word_counter
         THEN [word_counter EXCEPT ![word] = @ + 1]
         ELSE word_counter @@ (word :> 0 + 1)
    ELSE word_counter

RECURSIVE count_words(_, _)
count_words(word_counter, keywords) ==
    IF keywords = <<>>
    THEN word_counter
    ELSE count_words(count_word(word_counter, Head(keywords)), Tail(keywords))

\* main.rs:85-93
analyze_link(link, word_counter) ==
    count_words(word_counter, extract_keywords_from_url(link))

-----------------------------------------------------------------------------
(* Characters as bytes                                                     *)

\* the printable ASCII characters, Ascii[i] having the code 31 + i (the grave
\* accent, code 96, is spelled out)
Ascii ==
    <<" ","!","\"","#","$","%","&","'","(",")","*","+",",","-",".","/",
      "0","1","2","3","4","5","6","7","8","9",":",";","<","=",">","?",
      "@","A","B","C","D","E","F","G","H","I","J","K","L","M","N","O",
      "P","Q","R","S","T","U","V","W","X","Y","Z","[","\\","]","^","_",
      "GRAVE","a","b","c","d","e","f","g","h","i","j","k","l","m","n","o",
      "p","q","r","s","t","u","v","w","x","y","z","{","|","}","~">>

char_code == [c \in Range(Ascii) |-> 31 + (CHOOSE i \in 1..Len(Ascii) : Ascii[i] = c)]

\* the byte of a character
Ord(c) == char_code[c]

RECURSIVE SumTo(_, _)
SumTo(f, n) == IF n = 0 THEN 0 ELSE f[n] + SumTo(f, n - 1)

-----------------------------------------------------------------------------
(* HashMap<String, u32> with the default RandomState hasher (main.rs:119): *)
(* the table is walked in bucket order, and the bucket of a key depends on *)
(* the keys the hasher was created with.                                   *)

HashBuckets == 61

RECURSIVE hash(_, _)
hash(state, word) ==
    IF word = <<>>
    THEN state
    ELSE hash((state * 31 + Ord(Head(word))) % HashBuckets, Tail(word))

RECURSIVE LexLess(_, _)
LexLess(a, b) ==
    IF a = <<>> THEN b # <<>>
    ELSE IF b = <<>> THEN FALSE
    ELSE IF Head(a) # Head(b) THEN Ord(Head(a)) < Ord(Head(b))
    ELSE LexLess(Tail(a), Tail(b))

\* HashMap::iter visits a before b
iter_before(hasher, a, b) ==
    LET ha == hash(hasher * 7 + 1, a)
        hb == hash(hasher * 7 + 1, b)
    IN  ha < hb \/ (ha = hb /\ LexLess(a, b))

None == <<>>

Some(x) == <<x>>

\* get_most_common_word with min_by_key in the place of max_by_key
get_least_common_word(word_counter, hasher) ==
    IF DOMAIN word_counter = {}
    THEN None
    ELSE LET word == CHOOSE w \in DOMAIN word_counter :
                         \A v \in DOMAIN word_counter :
                             \/ v = w
                             \/ word_counter[v] > word_counter[w]
                             \/ /\ word_counter[v] = word_counter[w]
                                /\ iter_before(hasher, w, v)
         IN  Some(<<word, word_counter[word]>>)

\* main.rs:95-99  Iterator::max_by_key hands back the last of the entries
\* with the greatest count, in the order HashMap::iter visits them
get_most_common_word(word_counter, hasher) ==
    IF DOMAIN word_counter = {}
    THEN None
    ELSE LET word == CHOOSE w \in DOMAIN word_counter :
                         \A v \in DOMAIN word_counter :
                             \/ v = w
                             \/ word_counter[v] < word_counter[w]
                             \/ /\ word_counter[v] = word_counter[w]
                                /\ iter_before(hasher, v, w)
         IN  Some(<<word, word_counter[word]>>)

-----------------------------------------------------------------------------
(* The summary and its encoding                                            *)

\* No words analyzed yet
NoWordsText ==
    <<"N","o"," ","w","o","r","d","s"," ","a","n","a","l","y","z","e","d"," ","y","e","t">>

\* main.rs:131-138
to_result_value(most_common) ==
    IF most_common # None
    THEN [most_common_word |-> most_common[1][1], count |-> most_common[1][2]]
    ELSE [error |-> NoWordsText]

DigitChars == <<"0","1","2","3","4","5","6","7","8","9">>

RECURSIVE decimal(_)
decimal(n) ==
    IF n < 10 THEN <<DigitChars[n + 1]>>
    ELSE decimal(n \div 10) \o <<DigitChars[(n % 10) + 1]>>

\* main.rs:140  Value::to_string: compact JSON, object keys in sorted order
to_string(value) ==
    IF "error" \in DOMAIN value
    THEN <<"{","\"","e","r","r","o","r","\"",":","\"">>
         \o value.error \o <<"\"","}">>
    ELSE <<"{","\"","c","o","u","n","t","\"",":">>
         \o decimal(value.count)
         \o <<",","\"","m","o","s","t","_","c","o","m","m","o","n","_","w","o","r","d","\"",":","\"">>
         \o value.most_common_word \o <<"\"","}">>

\* Length in bytes of the digest the model works with.
DigestLen == 2

\* main.rs:104-106  Sha256: a fixed-length digest that is a function of the
\* bytes of data only (a checksum stands in for the compression function)
digest(data) ==
    [i \in 1..DigestLen |->
        (SumTo([j \in 1..Len(data) |-> Ord(data[j]) * (i + j)], Len(data))
            + i * Len(data)) % 256]

Base64Alphabet ==
    <<"A","B","C","D","E","F","G","H","I","J","K","L","M","N","O","P",
      "Q","R","S","T","U","V","W","X","Y","Z","a","b","c","d","e","f",
      "g","h","i","j","k","l","m","n","o","p","q","r","s","t","u","v",
      "w","x","y","z","0","1","2","3","4","5","6","7","8","9","+","/">>

\* encode_chunk of general_purpose::STANDARD: the group is padded with '='
encode_chunk_padded(bytes) ==
    LET n  == Len(bytes)
        b1 == bytes[1]
        b2 == IF n >= 2 THEN bytes[2] ELSE 0
        b3 == IF n >= 3 THEN bytes[3] ELSE 0
        sextets == << (b1 \div 4),
                      (b1 % 4) * 16 + (b2 \div 16),
                      (b2 % 16) * 4 + (b3 \div 64),
                      b3 % 64 >>
    IN  [i \in 1..4 |-> IF i <= n + 1 THEN Base64Alphabet[sextets[i] + 1] ELSE "="]

\* the characters of one group of at most three bytes
encode_chunk(bytes) ==
    LET n  == Len(bytes)
        b1 == bytes[1]
        b2 == IF n >= 2 THEN bytes[2] ELSE 0
        b3 == IF n >= 3 THEN bytes[3] ELSE 0
        sextets == << (b1 \div 4),
                      (b1 % 4) * 16 + (b2 \div 16),
                      (b2 % 16) * 4 + (b3 \div 64),
                      b3 % 64 >>
    IN  [i \in 1..(n + 1) |-> Base64Alphabet[sextets[i] + 1]]

\* main.rs:107  general_purpose::STANDARD_NO_PAD.encode
RECURSIVE base64_encode(_)
base64_encode(bytes) ==
    IF bytes = <<>> THEN <<>>
    ELSE IF Len(bytes) <= 3 THEN encode_chunk(bytes)
    ELSE encode_chunk(SubSeq(bytes, 1, 3)) \o base64_encode(SubSeq(bytes, 4, Len(bytes)))

\* main.rs:102-108
zk_compress(data) == base64_encode(digest(data))

Ok(x) == <<"Ok", x>>

Err(e) == <<"Err", e>>

sextet_of == [c \in Range(Base64Alphabet) |-> (CHOOSE i \in 1..64 : Base64Alphabet[i] = c) - 1]

sextet(c) == sextet_of[c]

\* the bytes of one group of two to four characters
decode_chunk(chars) ==
    LET n  == Len(chars)
        s1 == sextet(chars[1])
        s2 == sextet(chars[2])
        s3 == IF n >= 3 THEN sextet(chars[3]) ELSE 0
        s4 == IF n >= 4 THEN sextet(chars[4]) ELSE 0
        bytes == << s1 * 4 + (s2 \div 16),
                    (s2 % 16) * 16 + (s3 \div 4),
                    (s3 % 4) * 64 + s4 >>
    IN  SubSeq(bytes, 1, n - 1)

RECURSIVE decode_chunks(_)
decode_chunks(chars) ==
    IF chars = <<>> THEN <<>>
    ELSE IF Len(chars) <= 4 THEN decode_chunk(chars)
    ELSE decode_chunk(SubSeq(chars, 1, 4)) \o decode_chunks(SubSeq(chars, 5, Len(chars)))

\* a decoder that does not look at the bits of the last character that
\* belong to no byte
base64_decode_lenient(chars) ==
    LET n == Len(chars)
    IN  IF \E i \in 1..n : chars[i] \notin Range(Base64Alphabet)
        THEN Err("InvalidByte")
        ELSE IF n % 4 = 1
        THEN Err("InvalidLength")
        ELSE Ok(decode_chunks(chars))

\* main.rs:113  general_purpose::STANDARD_NO_PAD.decode: every character is
\* of the alphabet ('=' is not), the length is not 1 modulo 4, and the bits
\* of the last character that belong to no byte are zero
base64_decode(chars) ==
    LET n    == Len(chars)
        last == sextet(chars[n])
    IN  IF \E i \in 1..n : chars[i] \notin Range(Base64Alphabet)
        THEN Err("InvalidByte")
        ELSE IF n % 4 = 1
        THEN Err("InvalidLength")
        ELSE IF (n % 4 = 2 /\ last % 16 # 0) \/ (n % 4 = 3 /\ last % 4 # 0)
        THEN Err("InvalidLastSymbol")
        ELSE Ok(decode_chunks(chars))

HexChars == <<"0","1","2","3","4","5","6","7","8","9","a","b","c","d","e","f">>

RECURSIVE hex_encode(_)
hex_encode(bytes) ==
    IF bytes = <<>> THEN <<>>
    ELSE <<HexChars[(Head(bytes) \div 16) + 1], HexChars[(Head(bytes) % 16) + 1]>>
         \o hex_encode(Tail(bytes))

\* main.rs:111-115
zk_decompress(compressed_data) ==
    LET bytes == base64_decode(compressed_data)
    IN  IF bytes[1] = "Ok" THEN Ok(hex_encode(bytes[2])) ELSE bytes

-----------------------------------------------------------------------------
(* The poll loop of main (main.rs:117-165)                                 *)

VARIABLES
    pc,             \* where main is: "fetch", "loop", "flush", "sleep", "crashed"
    links,          \* main.rs:118  the batch
    word_counter,   \* main.rs:119  the frequency table
    hasher,         \* main.rs:119  the RandomState of word_counter
    store,          \* the URLs of the browser history database
    urls,           \* main.rs:124  what the for loop has still to visit
    fetched,        \* what the latest extract_links_from_chrome returned
    same,           \* the history holds the rows it held at the fetch before
    table_before,   \* word_counter when this iteration started
    result,         \* main.rs:131  the summary value of this iteration
    out,            \* the lines printed in this iteration
    codec           \* main.rs:102-115  the text and bytes a codec run works on

vars == <<pc, links, word_counter, hasher, store, urls, fetched, same,
          table_before, result, out, codec>>

\* the lines main prints (main.rs:128, 142-143, 148-149, 152, 161)
AnalyzedLine(url) == <<"Analyzed new link", url>>

ResultLine(compressed_result) == <<"Solfhe Result (ZK compressed)", compressed_result>>

DecompressedLine(decompressed_data) == <<"Decompressed data (hash)", decompressed_data>>

ErrorLine(e) == <<"Error decompressing", e>>

NoNewLinksLine == <<"No new links found">>

\* main.rs:146-153  the line the match on zk_decompress's result prints
inspection_line(decompressed) ==
    IF decompressed[1] = "Ok"
    THEN DecompressedLine(decompressed[2])
    ELSE ErrorLine(decompressed[2])

\* no codec run is under way
CodecOff == [stage |-> "off"]

Injective(f) == \A i, j \in DOMAIN f : f[i] = f[j] => i = j

\* main.rs:41-59  what extract_links_from_chrome may return: up to FetchLimit
\* rows of the urls table, one row per URL
rows_of ==
    [db \in Stores |->
        UNION {{f \in [1..n -> db] : Injective(f)} : n \in 0..Min(FetchLimit, MaxFetch)}]

Fetches(db) == rows_of[db]

Init ==
    /\ pc = "fetch"
    /\ links = <<>>
    /\ word_counter = EmptyMap
    /\ hasher \in 0..(HashSeeds - 1)
    /\ store \in Stores
    /\ urls = <<>>
    /\ fetched = None
    /\ same = FALSE
    /\ table_before = EmptyMap
    /\ result = None
    /\ out = <<>>
    /\ codec = CodecOff

\* main.rs:122-123  the fetch hands back at least one URL
FetchLinks ==
    /\ pc = "fetch"
    /\ \E f \in Fetches(store) \ {<<>>} :
          /\ same => fetched = Some(f)
          /\ urls' = f
          /\ fetched' = Some(f)
    /\ pc' = "loop"
    /\ UNCHANGED <<codec, links, word_counter, hasher, store, same, table_before, result, out>>

\* FetchNothing starting the batch over
FetchNothing_Resets ==
    /\ pc = "fetch"
    /\ same => fetched = Some(<<>>)
    /\ fetched' = Some(<<>>)
    /\ out' = Append(out, NoNewLinksLine)
    /\ links' = <<>>
    /\ word_counter' = EmptyMap
    /\ pc' = "sleep"
    /\ UNCHANGED <<codec, hasher, store, urls, same, table_before, result>>

\* main.rs:122, 161  the fetch hands back nothing
FetchNothing ==
    /\ pc = "fetch"
    /\ same => fetched = Some(<<>>)
    /\ fetched' = Some(<<>>)
    /\ out' = Append(out, NoNewLinksLine)
    /\ pc' = "sleep"
    /\ UNCHANGED <<codec, links, word_counter, hasher, store, urls, same, table_before, result>>

\* a fetch whose error is caught and left to the next iteration
FetchPanics_Retries ==
    /\ pc = "fetch"
    /\ pc' = "sleep"
    /\ fetched' = None
    /\ UNCHANGED <<codec, links, word_counter, hasher, store, urls, same,
                   table_before, result, out>>

\* a fetch whose error is swallowed and taken for an empty history
\* (unwrap_or_default in place of expect)
FetchPanics_AsEmpty ==
    /\ pc = "fetch"
    /\ pc' = "sleep"
    /\ fetched' = None
    /\ out' = Append(out, NoNewLinksLine)
    /\ UNCHANGED <<codec, links, word_counter, hasher, store, urls, same,
                   table_before, result>>

\* main.rs:45-56  an expect of extract_links_from_chrome panics: nothing is
\* returned and the process is over
FetchPanics ==
    /\ pc = "fetch"
    /\ pc' = "crashed"
    /\ fetched' = None
    /\ UNCHANGED <<codec, links, word_counter, hasher, store, urls, same,
                   table_before, result, out>>

\* main.rs:124-125  the URL is in the batch already
SkipSeen ==
    /\ pc = "loop"
    /\ urls # <<>>
    /\ contains(links, Head(urls))
    /\ urls' = Tail(urls)
    /\ UNCHANGED <<codec, pc, links, word_counter, hasher, store, fetched, same,
                   table_before, result, out>>

\* AnalyzeNew without the membership test of main.rs:125
AnalyzeNew_Unchecked ==
    /\ pc = "loop"
    /\ urls # <<>>
    /\ links' = Append(links, Head(urls))
    /\ word_counter' = analyze_link(Head(urls), word_counter)
    /\ out' = Append(out, AnalyzedLine(Head(urls)))
    /\ urls' = Tail(urls)
    /\ pc' = IF Len(links') >= BatchLimit THEN "flush" ELSE "loop"
    /\ UNCHANGED <<codec, hasher, store, fetched, same, table_before, result>>

\* main.rs:124-130  the URL is new to the batch
AnalyzeNew ==
    /\ pc = "loop"
    /\ urls # <<>>
    /\ ~contains(links, Head(urls))
    /\ links' = Append(links, Head(urls))
    /\ word_counter' = analyze_link(Head(urls), word_counter)
    /\ out' = Append(out, AnalyzedLine(Head(urls)))
    /\ urls' = Tail(urls)
    /\ pc' = IF Len(links') >= BatchLimit THEN "flush" ELSE "loop"
    /\ UNCHANGED <<codec, hasher, store, fetched, same, table_before, result>>

\* Flush leaving the for loop: the URLs not yet visited are dropped
Flush_Breaks ==
    /\ pc = "flush"
    /\ LET value == to_result_value(get_most_common_word(word_counter, hasher))
           json_string == to_string(value)
           compressed_result == zk_compress(json_string)
           decompressed == zk_decompress(compressed_result)
       IN  /\ result' = Some(value)
           /\ out' = out \o <<ResultLine(compressed_result),
                              inspection_line(decompressed)>>
    /\ links' = <<>>
    /\ word_counter' = EmptyMap
    /\ urls' = <<>>
    /\ pc' = "loop"
    /\ UNCHANGED <<codec, hasher, store, fetched, same, table_before>>

\* Flush without links.clear()
Flush_KeepsBatch ==
    /\ pc = "flush"
    /\ LET value == to_result_value(get_most_common_word(word_counter, hasher))
           json_string == to_string(value)
           compressed_result == zk_compress(json_string)
           decompressed == zk_decompress(compressed_result)
       IN  /\ result' = Some(value)
           /\ out' = out \o <<ResultLine(compressed_result),
                              inspection_line(decompressed)>>
    /\ word_counter' = EmptyMap
    /\ pc' = "loop"
    /\ UNCHANGED <<codec, links, hasher, store, urls, fetched, same, table_before>>

\* Flush without word_counter.clear()
Flush_KeepsTable ==
    /\ pc = "flush"
    /\ LET value == to_result_value(get_most_common_word(word_counter, hasher))
           json_string == to_string(value)
           compressed_result == zk_compress(json_string)
           decompressed == zk_decompress(compressed_result)
       IN  /\ result' = Some(value)
           /\ out' = out \o <<ResultLine(compressed_result),
                              inspection_line(decompressed)>>
    /\ links' = <<>>
    /\ pc' = "loop"
    /\ UNCHANGED <<codec, word_counter, hasher, store, urls, fetched, same, table_before>>

\* main.rs:131-157
Flush ==
    /\ pc = "flush"
    /\ LET value == to_result_value(get_most_common_word(word_counter, hasher))
           json_string == to_string(value)
           compressed_result == zk_compress(json_string)
           decompressed == zk_decompress(compressed_result)
       IN  /\ result' = Some(value)
           /\ out' = out \o <<ResultLine(compressed_result),
                              inspection_line(decompressed)>>
    /\ links' = <<>>
    /\ word_counter' = EmptyMap
    /\ pc' = "loop"
    /\ UNCHANGED <<codec, hasher, store, urls, fetched, same, table_before>>

\* the loop without thread::sleep: the next fetch follows at once
EndLoop_NoSleep ==
    /\ pc = "loop"
    /\ urls = <<>>
    /\ pc' = "fetch"
    /\ table_before' = word_counter
    /\ fetched' = None
    /\ same' = FALSE
    /\ result' = None
    /\ out' = <<>>
    /\ UNCHANGED <<codec, links, word_counter, hasher, store, urls>>

\* main.rs:124, 159  the for loop has visited every fetched URL
EndLoop ==
    /\ pc = "loop"
    /\ urls = <<>>
    /\ pc' = "sleep"
    /\ UNCHANGED <<codec, links, word_counter, hasher, store, urls, fetched, same,
                   table_before, result, out>>

\* main.rs:163, 121  the sleep is over and the next iteration starts; the
\* browser has written to its history in the meantime
Wake ==
    /\ pc = "sleep"
    /\ pc' = "fetch"
    /\ table_before' = word_counter
    /\ fetched' = None
    /\ same' = FALSE
    /\ result' = None
    /\ out' = <<>>
    /\ UNCHANGED <<codec, links, word_counter, hasher, store, urls>>

\* main.rs:163, 121  the sleep is over and the next iteration starts; the
\* history is as it was, and the next fetch returns the same rows
WakeUnchanged ==
    /\ pc = "sleep"
    /\ fetched # None
    /\ pc' = "fetch"
    /\ table_before' = word_counter
    /\ same' = TRUE
    /\ result' = None
    /\ out' = <<>>
    /\ UNCHANGED <<codec, links, word_counter, hasher, store, urls, fetched>>

Next ==
    \/ FetchLinks
    \/ FetchNothing
    \/ FetchPanics
    \/ SkipSeen
    \/ AnalyzeNew
    \/ Flush
    \/ EndLoop
    \/ Wake

Spec == Init /\ [][Next]_vars

\* the iterations of main, with the sleeps during which the history stays as
\* it is told apart from the others
NextRepeat ==
    \/ Next
    \/ WakeUnchanged

SpecRepeat == Init /\ [][NextRepeat]_vars

\* one run of main: one history store, one RandomState
InitRun ==
    /\ Init
    /\ store = StoreMixed
    /\ hasher = 0

SpecRun == InitRun /\ [][Next]_vars

\* main.rs:164  thread::sleep returns: the timer is fair
FairRun == SpecRun /\ WF_vars(Wake)

\* main.rs:48  what the query may return when the history holds FetchLimit
\* URLs: any number of rows up to LIMIT 5
rows_full ==
    UNION {{f \in [1..n -> StoreMixed] : Injective(f)} : n \in 0..FetchLimit}

\* main.rs:122-123  the fetch hands back up to FetchLimit URLs
FetchLinksFull ==
    /\ pc = "fetch"
    /\ \E f \in rows_full \ {<<>>} :
          /\ urls' = f
          /\ fetched' = Some(f)
    /\ pc' = "loop"
    /\ UNCHANGED <<codec, links, word_counter, hasher, store, same, table_before, result, out>>

NextFull ==
    \/ FetchLinksFull
    \/ FetchNothing
    \/ FetchPanics
    \/ SkipSeen
    \/ AnalyzeNew
    \/ Flush
    \/ EndLoop
    \/ Wake

\* one run of main with fetches of every length the query allows
SpecFull == InitRun /\ [][NextFull]_vars

-----------------------------------------------------------------------------
(* zk_compress and zk_decompress on their own (main.rs:102-115)            *)

\* Longest byte sequence and longest text a codec run starts from.
MaxBytes == 3

MaxText == 3

\* the byte values a codec run draws from: the ends of the range and the
\* values around the borders of the 6-bit groups
CodecBytes == {0, 3, 15, 16, 63, 64, 128, 255}

\* the characters a codec run draws from: of the alphabet, the padding
\* character and characters outside the alphabet
CodecChars == <<"A", "Q", "T", "/", "=", "!", " ", "a">>

CodecCounts == {1, 2, 5, 10, 123}

BoundedSeqs(S, n) == UNION {[1..k -> S] : k \in 0..n}

\* main.rs:131-139  the summary values zk_compress may be handed
CodecValues ==
    {to_result_value(None)}
        \cup {to_result_value(Some(<<w, n>>)) :
                 w \in Range(BLOCKCHAIN_NETWORKS), n \in CodecCounts}

CodecRun(stage, origin, value, bytes, text, decoded, line) ==
    [stage |-> stage, origin |-> origin, value |-> value, bytes |-> bytes,
     text |-> text, decoded |-> decoded, line |-> line]

CodecStarts ==
    {CodecRun("value", "value", v, None, None, None, None) : v \in CodecValues}
        \cup {CodecRun("bytes", "bytes", None, b, None, None, None) :
                 b \in BoundedSeqs(CodecBytes, MaxBytes)}
        \cup {CodecRun("text", "text", None, None, t, None, None) :
                 t \in BoundedSeqs(Range(CodecChars), MaxText)}

InitCodec ==
    /\ pc = "codec"
    /\ links = <<>>
    /\ word_counter = EmptyMap
    /\ hasher = 0
    /\ store = StoreExample
    /\ urls = <<>>
    /\ fetched = None
    /\ same = FALSE
    /\ table_before = EmptyMap
    /\ result = None
    /\ out = <<>>
    /\ codec \in CodecStarts

driver_vars == <<pc, links, word_counter, hasher, store, urls, fetched, same,
                 table_before, result, out>>

\* main.rs:141, 102-108  zk_compress(&result): the JSON text of the value is
\* hashed and the digest encoded
CodecCompress ==
    /\ codec.stage = "value"
    /\ LET json_string == to_string(codec.value)
       IN  codec' = [codec EXCEPT !.stage = "text",
                                  !.bytes = digest(json_string),
                                  !.text = zk_compress(json_string)]
    /\ UNCHANGED driver_vars

\* main.rs:107  STANDARD_NO_PAD.encode on any bytes
CodecEncode ==
    /\ codec.stage = "bytes"
    /\ codec' = [codec EXCEPT !.stage = "text",
                              !.text = base64_encode(codec.bytes)]
    /\ UNCHANGED driver_vars

\* main.rs:146-153, 111-115  zk_decompress and the match on what it returns
CodecDecompress ==
    /\ codec.stage = "text"
    /\ LET decompressed == zk_decompress(codec.text)
       IN  codec' = [codec EXCEPT !.stage = "done",
                                  !.decoded = decompressed,
                                  !.line = inspection_line(decompressed)]
    /\ UNCHANGED driver_vars

NextCodec ==
    \/ CodecCompress
    \/ CodecEncode
    \/ CodecDecompress

SpecCodec == InitCodec /\ [][NextCodec]_vars

-----------------------------------------------------------------------------
(* Properties                                                              *)

\* the keywords of every URL a history store may hold
keywords_of == [u \in URLS |-> extract_keywords_from_url(u)]

Occurrences(seq, x) == Cardinality({i \in 1..Len(seq) : seq[i] = x})

\* how often each of its keywords occurs in a URL
occurrences_in ==
    [u \in URLS |-> [w \in Range(keywords_of[u]) |-> Occurrences(keywords_of[u], w)]]

\* how often the keyword w occurs in the URLs of batch
RECURSIVE BatchOccurrences(_, _)
BatchOccurrences(batch, w) ==
    IF batch = <<>>
    THEN 0
    ELSE (IF w \in DOMAIN occurrences_in[Head(batch)]
          THEN occurrences_in[Head(batch)][w]
          ELSE 0)
         + BatchOccurrences(Tail(batch), w)

\* the Inclusion Rule: in the allow-list, or longer than three characters
InclusionRule(w) == w \in Range(BLOCKCHAIN_NETWORKS) \/ Len(w) > 3

\* the keywords of a URL that satisfy the Inclusion Rule
qualifying_of == [u \in URLS |-> {w \in Range(keywords_of[u]) : InclusionRule(w)}]

LinesOf(lines, kind) == {i \in 1..Len(lines) : lines[i][1] = kind}

\* this step prints the summary block
FlushStep ==
    /\ Len(out') = Len(out) + 2
    /\ out'[Len(out) + 1][1] = "Solfhe Result (ZK compressed)"

\* this step appends a URL to the batch
AppendStep == Len(links') = Len(links) + 1

\* the URLs of this iteration's fetch the for loop has visited
Visited == SubSeq(fetched[1], 1, Len(fetched[1]) - Len(urls))

\* C1: a flush is pending exactly after an append that brings the batch to
\* five URLs, and the summary block is printed exactly by the step that
\* follows it; that step prints the encoded summary and then its inspection
\* decode and leaves the batch and the frequency table empty, and the counts
\* after the next append are those of the appended URL alone (a keyword
\* recorded first after a flush starts at 1).
C1_FlushAtFive ==
    [][ /\ (pc' = "flush") <=> (AppendStep /\ Len(links') >= 5)
        /\ FlushStep <=> (pc = "flush")
        /\ FlushStep =>
              /\ Len(links) = 5
              /\ out'[Len(out) + 2][1] = "Decompressed data (hash)"
              /\ zk_decompress(out'[Len(out) + 1][2]) = Ok(out'[Len(out) + 2][2])
              /\ links' = <<>>
              /\ word_counter' = EmptyMap
        /\ (result # None /\ links = <<>> /\ AppendStep) =>
              /\ DOMAIN word_counter' =
                    {w \in Range(keywords_of[links'[1]]) : InclusionRule(w)}
              /\ \A w \in DOMAIN word_counter' :
                    word_counter'[w] = Occurrences(keywords_of[links'[1]], w)
              /\ \A i \in 1..Len(keywords_of[links'[1]]) :
                    LET w == keywords_of[links'[1]][i]
                    IN  (InclusionRule(w) /\ \A j \in 1..(i - 1) :
                                                 ~InclusionRule(keywords_of[links'[1]][j]))
                        => count_word(word_counter, w)[w] = 1
      ]_vars

\* C1 witness: a flush has been printed in this iteration and a URL fetched
\* after it has put keywords into the emptied table
C1_Witness ==
    /\ result # None
    /\ LinesOf(out, "Solfhe Result (ZK compressed)") # {}
    /\ links # <<>>
    /\ word_counter # EmptyMap

\* C2: the frequency table holds exactly the keywords of the batch's URLs
\* that satisfy the Inclusion Rule, each with the number of its occurrences
\* in the URLs appended since the last reset; it is empty when the batch is.
C2_TableCountsBatch ==
    /\ \A w \in DOMAIN word_counter :
          /\ InclusionRule(w)
          /\ word_counter[w] = BatchOccurrences(links, w)
    /\ \A i \in 1..Len(links) : qualifying_of[links[i]] \subseteq DOMAIN word_counter
    /\ (links = <<>> => word_counter = EmptyMap)

\* C2 witness: a batch of several URLs with a keyword counted more than once
\* and a keyword left out by the Inclusion Rule
C2_Witness ==
    /\ Len(links) >= 2
    /\ \E w \in DOMAIN word_counter : word_counter[w] >= 2
    /\ \E i \in 1..Len(links) : \E w \in Range(keywords_of[links[i]]) :
          w \notin DOMAIN word_counter

\* C3: the for loop visits each fetched URL once; a URL that is not in the
\* batch is appended, analyzed and acknowledged by one line, a URL that is in
\* the batch changes neither the batch nor the table and prints nothing; the
\* batch never holds a URL twice.
C3_NewUrlsOnly ==
    [][ /\ Injective(links')
        /\ (pc = "loop" /\ urls # <<>>) =>
              /\ urls' = Tail(urls)
              /\ IF \E i \in 1..Len(links) : links[i] = Head(urls)
                 THEN /\ links' = links
                      /\ word_counter' = word_counter
                      /\ out' = out
                 ELSE /\ links' = Append(links, Head(urls))
                      /\ word_counter' = analyze_link(Head(urls), word_counter)
                      /\ out' = Append(out, AnalyzedLine(Head(urls)))
      ]_vars

\* C3 witness: a URL of this fetch was visited while it was in the batch, so
\* it is in the batch and has no acknowledgment
C3_Witness ==
    /\ pc \in {"loop", "sleep"}
    /\ fetched # None
    /\ \E i \in 1..Len(Visited) :
          /\ Visited[i] \in Range(links)
          /\ AnalyzedLine(Visited[i]) \notin Range(out)
    /\ \E i \in 1..Len(Visited) : AnalyzedLine(Visited[i]) \in Range(out)

\* C4: a fetch that yields no URL prints the one line "No new links found"
\* and goes to the sleep with the batch and the frequency table as they were.
C4_EmptyFetch ==
    [][ /\ (pc = "fetch" /\ fetched' = Some(<<>>)) =>
              /\ out' = <<NoNewLinksLine>>
              /\ pc' = "sleep"
              /\ links' = links
              /\ word_counter' = word_counter
        /\ (pc' = "sleep" /\ fetched' = Some(<<>>)) =>
              /\ word_counter' = table_before'
              /\ result' = None
      ]_vars

\* C4 witness: an empty fetch has been handled while the batch and the table
\* were not empty
C4_Witness ==
    /\ pc = "sleep"
    /\ fetched = Some(<<>>)
    /\ out = <<NoNewLinksLine>>
    /\ links # <<>>
    /\ word_counter # EmptyMap

\* C5: the summary of a flush is {"error": "No words analyzed yet"} exactly
\* when the frequency table is empty; otherwise it names a keyword of the
\* table with its count, and no count of the table is greater; the printed
\* summary is the encoding of that value.
C5_Summary ==
    [][ (pc = "flush") =>
           /\ result' # None
           /\ LET value == result'[1]
              IN  /\ ("error" \in DOMAIN value) <=> (DOMAIN word_counter = {})
                  /\ ("error" \in DOMAIN value) => value = [error |-> NoWordsText]
                  /\ ("error" \notin DOMAIN value) =>
                        /\ DOMAIN value = {"most_common_word", "count"}
                        /\ value.most_common_word \in DOMAIN word_counter
                        /\ word_counter[value.most_common_word] = value.count
                        /\ \A w \in DOMAIN word_counter : word_counter[w] <= value.count
                  /\ out'[Len(out) + 1] = ResultLine(zk_compress(to_string(value)))
      ]_vars

\* C5 witness: a flush has reported a keyword whose count is greater than
\* another count of the table (the batch of StoreMixed)
C5_Witness ==
    /\ result # None
    /\ "count" \in DOMAIN result[1]
    /\ result[1].count >= 2

\* a flush has reported that no word was analyzed (the batch of StoreNoise)
C5_NoDataReached ==
    /\ result # None
    /\ "error" \in DOMAIN result[1]

\* C6: the summary of a flush does not depend on the RandomState of the
\* table: a run that reaches the flush with the same table and any other
\* hasher reports the same keyword.
C6_TieDeterministic ==
    [][ (pc = "flush") =>
           \A h \in 0..(HashSeeds - 1) :
               Some(to_result_value(get_most_common_word(word_counter, h))) = result'
      ]_vars

\* the URLs that parse
parses == [u \in URLS |-> Url_parse(as_chars[u]).ok]

\* the keywords of a URL are none when it does not parse, and are not empty,
\* without upper-case letter and outside the stoplist when it does
keywords_clean ==
    [u \in URLS |->
        /\ ~parses[u] => keywords_of[u] = <<>>
        /\ \A k \in Range(keywords_of[u]) :
              /\ k # <<>>
              /\ Range(k) \cap Range(UpperAlpha) = {}
              /\ k \notin Range(IGNORED_WORDS)]

\* C7: extract yields nothing for a URL that does not parse, and otherwise
\* only keywords that are not empty, have no upper-case letter and are not
\* in the stoplist; no key of the frequency table is empty or in the stoplist.
C7_KeywordsClean ==
    /\ \A i \in 1..Len(links) : keywords_clean[links[i]]
    /\ \A w \in DOMAIN word_counter :
          /\ w # <<>>
          /\ Range(w) \cap Range(UpperAlpha) = {}
          /\ w \notin Range(IGNORED_WORDS)

\* C7 witness: the batch holds a URL that does not parse, a URL with a
\* stoplist word written in upper case and a URL that has keywords
C7_Witness ==
    /\ \E i \in 1..Len(links) : ~parses[links[i]]
    /\ \E i \in 1..Len(links) :
          \E s \in Range(split(as_chars[links[i]], "/")) :
              s \notin Range(IGNORED_WORDS) /\ to_lowercase(s) \in Range(IGNORED_WORDS)
    /\ \E i \in 1..Len(links) : keywords_of[links[i]] # <<>>

\* the segments of the host and then of the path of a URL that parses
SegmentsOf(u) ==
    split(Url_parse(as_chars[u]).domain, ".") \o split(Url_parse(as_chars[u]).path, "/")

\* the keywords of u are its segments that are neither empty nor in the
\* stoplist, lower-cased, in the order of the segments and as often as they occur
HostThenPath(u) ==
    LET segs == SegmentsOf(u)
        I    == {i \in 1..Len(segs) :
                    segs[i] # <<>> /\ to_lowercase(segs[i]) \notin Range(IGNORED_WORDS)}
        K    == keywords_of[u]
    IN  /\ Len(K) = Cardinality(I)
        /\ \A n \in 1..Len(K) :
              K[n] = to_lowercase(segs[CHOOSE i \in I : Cardinality({j \in I : j < i}) = n - 1])

in_segment_order == [u \in URLS |-> parses[u] => HostThenPath(u)]

\* C8: the keywords of a URL that parses are its kept host segments in order
\* followed by its kept path segments in order, duplicates included, and an
\* append raises the count of every qualifying keyword by the number of its
\* occurrences in the appended URL.
C8_OrderAndMultiplicity ==
    [][ AppendStep =>
           LET u == links'[Len(links')]
               K == keywords_of[u]
           IN  /\ in_segment_order[u]
               /\ (u = UrlMina) =>
                     K = << <<"m","i","n","a">>, <<"s","w","a","p">>, <<"s","w","a","p">> >>
               /\ \A w \in Range(K) :
                     InclusionRule(w) =>
                        /\ w \in DOMAIN word_counter'
                        /\ word_counter'[w] =
                              (IF w \in DOMAIN word_counter THEN word_counter[w] ELSE 0)
                              + Occurrences(K, w)
      ]_vars

\* C8 witness: a URL in which a qualifying keyword occurs three times has
\* been appended to a batch that had counted the keyword before
C8_Witness ==
    /\ Len(links) >= 2
    /\ links[Len(links)] = UrlRepeat
    /\ Occurrences(keywords_of[UrlRepeat], <<"s","c","r","o","l","l">>) = 3
    /\ <<"s","c","r","o","l","l">> \in DOMAIN word_counter
    /\ word_counter[<<"s","c","r","o","l","l">>] = 4

\* C9: an iteration that has appended no URL has printed "No new links
\* found" once, and an iteration that has appended a URL has not printed it.
C9_NoNewLinksLine ==
    (pc = "sleep") =>
        LET analyzed == Cardinality(LinesOf(out, "Analyzed new link"))
            nonew    == Cardinality(LinesOf(out, "No new links found"))
        IN  /\ (analyzed = 0) => (nonew = 1)
            /\ (analyzed > 0) => (nonew = 0)

\* C10: an iteration whose fetch returned what the fetch of the iteration
\* before returned has acknowledged no URL and has left the frequency table
\* as it was.
C10_SameFetchTwice ==
    (pc = "sleep" /\ same) =>
        /\ LinesOf(out, "Analyzed new link") = {}
        /\ word_counter = table_before
\* the two hexadecimal digits of every byte, in the order of the bytes
IsHexOf(text, bytes) ==
    /\ Len(text) = 2 * Len(bytes)
    /\ \A i \in 1..Len(bytes) :
          /\ text[2 * i - 1] = HexChars[(bytes[i] \div 16) + 1]
          /\ text[2 * i] = HexChars[(bytes[i] % 16) + 1]

\* C11: decoding the padding-free base64 text of any byte sequence x
\* succeeds and gives the hexadecimal text of x; for a summary value v,
\* zk_decompress(zk_compress(v)) succeeds and gives the hexadecimal text of
\* the digest of v's JSON text, which is never that JSON text.
C11_RoundTrip ==
    (codec.stage = "done" /\ codec.origin \in {"bytes", "value"}) =>
        /\ codec.decoded[1] = "Ok"
        /\ IsHexOf(codec.decoded[2], codec.bytes)
        /\ codec.line = DecompressedLine(codec.decoded[2])
        /\ codec.origin = "value" =>
              /\ codec.bytes = digest(to_string(codec.value))
              /\ Len(codec.decoded[2]) = 2 * DigestLen
              /\ codec.decoded[2] # to_string(codec.value)

\* a summary value with a word and a count has gone through the round trip
C11_Witness ==
    /\ codec.stage = "done"
    /\ codec.origin = "value"
    /\ "count" \in DOMAIN codec.value
    /\ codec.decoded[1] = "Ok"

\* text is the padding-free base64 text of some byte sequence
IsNoPadBase64(text) ==
    /\ \A i \in 1..Len(text) : text[i] \in Range(Base64Alphabet)
    /\ Len(text) % 4 # 1
    /\ base64_encode(decode_chunks(text)) = text

DecodeErrors == {"InvalidByte", "InvalidLength", "InvalidLastSymbol"}

FailedFetchStep == pc = "fetch" /\ fetched' = None

\* C13: a fetch that cannot locate or read the history ends the process: the
\* failed fetch prints nothing, and from then on no line is printed and no
\* step of the loop, hence no further poll, is taken.
C13_FailFast ==
    [][/\ FailedFetchStep => (pc' = "crashed" /\ out' = out)
       /\ pc # "crashed"]_vars

\* the fetch has failed while the batch held URLs
C13_Witness ==
    /\ pc = "crashed"
    /\ links # <<>>
    /\ out = <<>>

\* C14 as stated: after a fetch that fails the driver reaches the interval
\* wait, from where the fetch is made again, with batch and table as they
\* were.
C14_RetriedNextIteration ==
    [][FailedFetchStep =>
          (pc' = "sleep" /\ links' = links /\ word_counter' = word_counter)]_vars

\* C14 amended: a fetch that fails is not retried. The driver stops inside
\* the fetch, reaching neither the interval wait nor another fetch; batch
\* and table are as they were when the fetch started and no step reads them
\* again.
C14_NotRetried ==
    /\ [][FailedFetchStep =>
             (pc' \notin {"sleep", "fetch"} /\ links' = links
                 /\ word_counter' = word_counter)]_vars
    /\ [](pc = "crashed" => (~ENABLED Next /\ word_counter = table_before))

\* the fetch has failed with four URLs in the batch
C14_Witness ==
    /\ pc = "crashed"
    /\ Len(links) = BatchLimit - 1
    /\ word_counter # EmptyMap

Idle == pc = "sleep"

Processing == pc \in {"fetch", "loop", "flush"}

IsSuffix(s, t) == Len(s) <= Len(t) /\ s = SubSeq(t, Len(t) - Len(s) + 1, Len(t))

\* one step of a Processing phase: the for loop takes the URLs from the
\* front, one per step, leaves them alone while it flushes, and goes to the
\* wait only when none is left; the empty fetch goes to the wait at once
ConsumesInOrder ==
    /\ (pc = "fetch" /\ fetched' # None) =>
          /\ urls' = fetched'[1]
          /\ pc' = IF urls' = <<>> THEN "sleep" ELSE "loop"
    /\ (pc = "loop" /\ urls # <<>>) =>
          /\ urls' = Tail(urls)
          /\ pc' \in {"loop", "flush"}
          /\ \/ links' = Append(links, Head(urls))
             \/ contains(links, Head(urls)) /\ links' = links
    /\ pc = "flush" => (urls' = urls /\ pc' = "loop")
    /\ (pc = "loop" /\ urls = <<>>) => pc' = "sleep"
    /\ Idle => pc' = "fetch"

\* the steps the for loop is from the wait, at most: one per URL left, one
\* more per flush, one to leave the loop
StepsToIdle ==
    CASE pc = "loop" -> 2 * Len(urls) + 1
      [] pc = "flush" -> 2 * Len(urls) + 2
      [] OTHER -> 0

NearerToIdle == pc \in {"loop", "flush"} => StepsToIdle' < StepsToIdle

\* C15: the driver alternates between Idle and Processing. A Processing
\* phase whose fetch succeeds takes every fetched URL once, in fetch order,
\* and every step of it brings the wait nearer, so that it is back in Idle
\* after at most two steps per fetched URL and one more, as the empty fetch
\* is after one; only the wait is left by the timer; and with a fair timer
\* every Idle state is followed by a new Processing phase.
C15_Alternation ==
    /\ [][ConsumesInOrder]_vars
    /\ [][NearerToIdle]_vars
    /\ [](fetched # None => IsSuffix(urls, fetched[1]))
    /\ [](Idle => (urls = <<>> /\ fetched # None))
    /\ Idle ~> Processing

\* the driver is back in Idle after a fetch of two URLs, one of which
\* it skipped
C15_Witness ==
    /\ Idle
    /\ fetched # None
    /\ Len(fetched[1]) = 2
    /\ Len(out) = 1
    /\ links # <<>>

\* the five URLs of the worked example, in the order they are fed
ExampleUrls == <<UrlUniswap, UrlEthereum, UrlScroll, UrlPolkadot, UrlExample>>

\* uniswap, ethereum, scroll, polkadot, bridge, network, example
ExampleWords ==
    {<<"u","n","i","s","w","a","p">>,
     <<"e","t","h","e","r","e","u","m">>,
     <<"s","c","r","o","l","l">>,
     <<"p","o","l","k","a","d","o","t">>,
     <<"b","r","i","d","g","e">>,
     <<"n","e","t","w","o","r","k">>,
     <<"e","x","a","m","p","l","e">>}

\* the poll that fetched the k-th URL of the example alone and has printed
\* for it, the batch being the URLs up to it
ExamplePoll(k) ==
    /\ fetched = Some(<<ExampleUrls[k]>>)
    /\ links = SubSeq(ExampleUrls, 1, k)
    /\ out # <<>>

\* C16: the five URLs of the example fed one per poll into an empty batch:
\* each of the first four polls prints the acknowledgment of its URL and no
\* summary; the fifth brings the flush, at which uniswap, ethereum, scroll,
\* polkadot, bridge, network and example are in the table with count 1,
\* exactly one summary is printed, and the word it reports satisfies the
\* Inclusion Rule and has the greatest count of the table, which is 1.
C16_Example ==
    /\ [](\A k \in 1..4 :
            (ExamplePoll(k) /\ urls = <<>>) =>
                /\ pc \in {"loop", "sleep", "crashed"}
                /\ (pc # "crashed") => out = <<AnalyzedLine(ExampleUrls[k])>>)
    /\ [][(ExamplePoll(5) /\ pc = "flush") =>
             /\ \A word \in ExampleWords :
                   word \in DOMAIN word_counter /\ word_counter[word] = 1
             /\ out = <<AnalyzedLine(UrlExample)>>
             /\ Len(out') = 3
             /\ LinesOf(out', "Solfhe Result (ZK compressed)") = {2}
             /\ DOMAIN result'[1] = {"most_common_word", "count"}
             /\ result'[1].count = 1
             /\ result'[1].most_common_word \in DOMAIN word_counter
             /\ InclusionRule(result'[1].most_common_word)
             /\ \A word \in DOMAIN word_counter : word_counter[word] <= 1
             /\ links' = <<>>
             /\ urls' = <<>>]_vars

\* the fifth URL of the example, fetched alone, has filled the batch
C16_Witness ==
    /\ pc = "flush"
    /\ ExamplePoll(5)
    /\ out = <<AnalyzedLine(UrlExample)>>

\* C17: the batch never holds more than 5 URLs, and 5 only while the flush
\* is pending: in Idle, as at the fetch and in the for loop, it holds at
\* most 4; a fetch hands back at most 5 URLs, and one poll prints at most
\* one summary.
C17_BatchBound ==
    /\ Len(links) <= 5
    /\ (Len(links) = 5) <=> (pc = "flush")
    /\ Idle => Len(links) <= 4
    /\ fetched # None => Len(fetched[1]) <= 5
    /\ Cardinality(LinesOf(out, "Solfhe Result (ZK compressed)")) <= 1

\* a fetch of five URLs whose first filled the batch: the summary has been
\* printed once and the other four URLs are the new batch
C17_Witness ==
    /\ Idle
    /\ Len(fetched[1]) = 5
    /\ Cardinality(LinesOf(out, "Solfhe Result (ZK compressed)")) = 1
    /\ Len(links) = 4

\* the lines of this iteration's summary block, if it has been printed
SummaryAt == LinesOf(out, "Solfhe Result (ZK compressed)")

\* the order of the lines at the step that prints the summary block: the
\* acknowledgment of the URL that filled the batch is the last line before
\* it, the encoded summary comes before its decode, the table the summary
\* is taken from holds the keywords of that URL, and the URLs the for loop
\* has not visited yet stay
FlushOrder ==
    pc = "flush" =>
        LET trigger == links[Len(links)]
        IN  /\ out # <<>>
            /\ out[Len(out)] = AnalyzedLine(trigger)
            /\ trigger = Visited[Len(Visited)]
            /\ Len(out') = Len(out) + 2
            /\ SubSeq(out', 1, Len(out)) = out
            /\ out'[Len(out) + 1][1] = "Solfhe Result (ZK compressed)"
            /\ out'[Len(out) + 2][1] = "Decompressed data (hash)"
            /\ qualifying_of[trigger] \subseteq DOMAIN word_counter
            /\ \A w \in qualifying_of[trigger] :
                  word_counter[w] >= occurrences_in[trigger][w]
            /\ qualifying_of[trigger] # {} =>
                  /\ "count" \in DOMAIN result'[1]
                  /\ \A w \in qualifying_of[trigger] :
                        result'[1].count >= word_counter[w]
            /\ urls' = urls

\* after the summary block of an iteration: the URLs fetched behind the one
\* that filled the batch are, in fetch order, the new batch followed by the
\* URLs still to visit, and the lines after the block are the
\* acknowledgments of the new batch
AfterFlush ==
    (pc \in {"loop", "sleep"} /\ SummaryAt # {}) =>
        LET i    == CHOOSE j \in SummaryAt : TRUE
            rest == links \o urls
            f    == fetched[1]
        IN  /\ IsSuffix(rest, f)
            /\ Len(rest) < Len(f)
            /\ out[i - 1] = AnalyzedLine(f[Len(f) - Len(rest)])
            /\ SubSeq(out, i + 2, Len(out))
                   = [j \in 1..Len(links) |-> AnalyzedLine(links[j])]

\* C18: at a flush the acknowledgment of the URL that filled the batch is
\* printed before the summary block, the encoded summary before its
\* inspection decode, and the summary is taken from a table that holds the
\* keywords of that URL; the URLs of the same fetch behind it are not
\* dropped: they are visited after the flush and make up the new batch.
C18_FlushOrder ==
    /\ [][FlushOrder]_vars
    /\ []AfterFlush

\* a fetch of four URLs: the batch was filled on the way, and the two URLs
\* behind the one that filled it are the new batch
C18_Witness ==
    /\ Idle
    /\ SummaryAt # {}
    /\ Len(fetched[1]) = 4
    /\ Len(links) = 2
    /\ Len(out) >= 5

\* C19: the allow-list never decides a keyword: each of its 20 names is
\* longer than 3 characters, so a keyword of the batch is in the table
\* exactly when it is longer than 3 characters, and no word of 3 characters
\* or fewer is ever counted.
C19_AllowListRedundant ==
    /\ Len(BLOCKCHAIN_NETWORKS) = 20
    /\ \A i \in DOMAIN BLOCKCHAIN_NETWORKS : Len(BLOCKCHAIN_NETWORKS[i]) > 3
    /\ \A w \in DOMAIN word_counter : Len(w) > 3
    /\ \A i \in 1..Len(links) : \A w \in Range(keywords_of[links[i]]) :
          (w \in DOMAIN word_counter) <=> (Len(w) > 3)

\* the batch has given the table a name of the list that is four
\* characters long, and has a keyword of two or three characters, which is
\* not in the table
C19_Witness ==
    /\ <<"m","i","n","a">> \in DOMAIN word_counter
    /\ \E i \in 1..Len(links) : \E w \in Range(keywords_of[links[i]]) :
          /\ Len(w) \in {2, 3}
          /\ w \notin DOMAIN word_counter

=============================================================================
